---------------------------- MODULE Spec2Model ----------------------------
(***************************************************************************)
(* MJPEG streaming server of src/main.py.                                  *)
(*                                                                         *)
(* Threads: the camera encoder thread calling StreamingOutput.outputframe  *)
(* (the producer), the main thread (main), the serve_forever thread (the   *)
(* acceptor) and one handler thread per accepted connection (a worker,     *)
(* CustomHTTPRequestHandler.do_GET).                                       *)
(*                                                                         *)
(* The code keeps no generation counter: gen, rgen, waitGen and the        *)
(* generation stored with every sent part are history variables that number*)
(* the calls of outputframe, so that statements about generations can be   *)
(* checked.  No action's guard reads them, except the bound MaxGen on the  *)
(* number of published frames.                                             *)
(*                                                                         *)
(* Requests are taken to carry an HTTP/1.x version, for which the library's*)
(* send_response/send_header/end_headers buffer the lines and write them   *)
(* in one block.  The Server and Date lines send_response adds belong to   *)
(* the library and are not written out in the status line modelled here.   *)
(***************************************************************************)
EXTENDS Integers, Sequences, FiniteSets, TLC

\* Number of frames the encoder publishes in a run.
MaxGen == 2

\* The connections accepted in a run, one handler thread each, numbered in
\* the order they are accepted.
Workers == {1, 2}
\* The thread identity of the encoder thread (workers are numbered from 1).
Producer == 0

\* self.frame = None
NoFrame == "<None>"
\* Frames the encoder may hand to outputframe: empty, 2 bytes, 10 bytes.
Frames == {"", "ab", "0123456789"}

\* Request paths: the two the handler names, a file, a missing file and a
\* stream path with a query string.
Paths == {"/", "/stream.mjpg", "/index.html", "/missing.txt", "/stream.mjpg?a=1"}
\* Files the static handler finds in the working directory.
StaticFiles == {"/index.html"}

VARIABLES
    frame,      \* output.frame
    lock,       \* holders of output.condition's lock: {} or {thread}
    waiters,    \* workers in output.condition's waiter list
    ppc,        \* producer: "idle" | "acquire" | "locked"
    recording,  \* picam2 is recording (the encoder thread produces frames)
    mainpc,     \* main thread: "join" | "stopped" | "done"
    serving,    \* serve_forever is running
    pc,         \* worker position
    path,       \* worker: self.path
    stalled,    \* worker: the client does not read, a write does not return
    local,      \* worker: the local variable frame
    wfile,      \* worker: the chunks written to the socket, one per write
    gen,        \* history: number of calls of outputframe that stored a frame
    fgen,       \* history: the call that stored the frame now in output.frame
    rgen,       \* history: the call that stored the frame now in local
    waitGen,    \* history: gen when the worker last began condition.wait()
    sent        \* history: <<generation, frame>> of every frame body written

vars == <<frame, lock, waiters, ppc, recording, mainpc, serving, pc, path,
          stalled, local, wfile, gen, fgen, rgen, waitGen, sent>>

prodVars == <<frame, ppc, gen, fgen>>
mainVars == <<recording, mainpc, serving>>
histVars == <<rgen, waitGen, sent>>

\* The test `if frame is not None:` in place of `if frame:`
TruthyNotNone(f) == f # NoFrame

\* Python truth value of a frame: `if frame:`
Truthy(f) == f # NoFrame /\ Len(f) > 0

Digits == <<"0", "1", "2", "3", "4", "5", "6", "7", "8", "9">>

\* str(n) for n >= 0
RECURSIVE Str(_)
Str(n) == IF n < 10 THEN Digits[n + 1]
          ELSE Str(n \div 10) \o Digits[(n % 10) + 1]

\* send_header(keyword, value): one line of the header buffer
HeaderLine(keyword, value) == keyword \o ": " \o value \o "\r\n"

\* send_response(code): the status line put in the header buffer
StatusLine(code) ==
    CASE code = 200 -> "HTTP/1.0 200 OK\r\n"
      [] code = 301 -> "HTTP/1.0 301 Moved Permanently\r\n"
      [] code = 404 -> "HTTP/1.0 404 File not found\r\n"

\* end_headers(): the blank line that closes the buffer before it is written
EndHeaders == "\r\n"

RedirectResponse ==
    StatusLine(301) \o HeaderLine("Location", "/index.html") \o EndHeaders

StreamResponse ==
    StatusLine(200)
    \o HeaderLine("Age", "0")
    \o HeaderLine("Cache-Control", "no-cache, private")
    \o HeaderLine("Pragma", "no-cache")
    \o HeaderLine("Content-Type", "multipart/x-mixed-replace; boundary=FRAME")
    \o EndHeaders

\* super().do_GET(): the file, or 404
StaticResponse(p) ==
    IF p \in StaticFiles THEN StatusLine(200) \o EndHeaders \o "<file " \o p \o ">"
    ELSE StatusLine(404) \o EndHeaders

Boundary == "--FRAME\r\n"

\* The Content-Length counts the CRLF that follows the frame as well.
PartHeadersWithTrailer(f) ==
    HeaderLine("Content-Type", "image/jpeg")
    \o HeaderLine("Content-Length", Str(Len(f) + 2))
    \o EndHeaders

PartHeaders(f) ==
    HeaderLine("Content-Type", "image/jpeg")
    \o HeaderLine("Content-Length", Str(Len(f)))
    \o EndHeaders

Trailer == "\r\n"

Init ==
    /\ frame = NoFrame
    /\ lock = {}
    /\ waiters = {}
    /\ ppc = "idle"
    /\ recording = TRUE
    /\ mainpc = "join"
    /\ serving = TRUE
    /\ pc = [w \in Workers |-> "unborn"]
    /\ path = [w \in Workers |-> "/"]
    /\ stalled = [w \in Workers |-> FALSE]
    /\ local = [w \in Workers |-> NoFrame]
    /\ wfile = [w \in Workers |-> <<>>]
    /\ gen = 0
    /\ fgen = 0
    /\ rgen = [w \in Workers |-> 0]
    /\ waitGen = [w \in Workers |-> 0]
    /\ sent = [w \in Workers |-> <<>>]

---------------------------------------------------------------------------
\* The producer: StreamingOutput.outputframe, called by the encoder thread.

\* The encoder has a frame ready and calls outputframe.
OutputframeCall ==
    /\ recording
    /\ ppc = "idle"
    /\ gen < MaxGen
    /\ ppc' = "acquire"
    /\ UNCHANGED <<frame, gen, fgen, lock, waiters, pc, path, stalled, local, wfile>>
    /\ UNCHANGED <<mainVars, histVars>>

\* with self.condition:
OutputframeAcquire ==
    /\ ppc = "acquire"
    /\ lock = {}
    /\ lock' = {Producer}
    /\ ppc' = "locked"
    /\ UNCHANGED <<frame, gen, fgen, waiters, pc, path, stalled, local, wfile>>
    /\ UNCHANGED <<mainVars, histVars>>

\* A frame not yet replaced is kept: the new one is dropped.
StoreFrameOnce(f) ==
    /\ frame' = IF frame = NoFrame THEN f ELSE frame
    /\ gen' = gen + 1
    /\ fgen' = IF frame = NoFrame THEN gen + 1 ELSE fgen

\* The data of StreamingOutput that the condition's lock guards.
BroadcasterFields == [frame |-> frame]

\* self.frame = frame
StoreFrame(f) ==
    /\ frame' = f
    /\ gen' = gen + 1
    /\ fgen' = gen + 1

\* A notify() in place of notify_all(): one waiter is taken out.
NotifyOne ==
    IF waiters = {} THEN waiters' = {}
    ELSE \E w \in waiters : waiters' = waiters \ {w}

\* self.condition.notify_all()
NotifyAll == waiters' = {}

\* The body of the with block, for the frame f the encoder passed, and the
\* release of the lock on leaving it.
OutputframeBody ==
    /\ ppc = "locked"
    /\ \E f \in Frames : StoreFrame(f)
    /\ NotifyAll
    /\ lock' = {}
    /\ ppc' = "idle"
    /\ UNCHANGED <<pc, path, stalled, local, wfile>>
    /\ UNCHANGED <<mainVars, histVars>>

ProducerStep ==
    \/ OutputframeCall
    \/ OutputframeAcquire
    \/ OutputframeBody

---------------------------------------------------------------------------
\* The main thread.

\* Ctrl+C while main is in http_thread.join(); the finally block starts with
\* picam2.stop_recording(): the encoder produces no further frame (a call of
\* outputframe in progress completes).
StopRecording ==
    /\ mainpc = "join"
    /\ recording' = FALSE
    /\ mainpc' = "stopped"
    /\ UNCHANGED <<serving, lock, waiters, pc, path, stalled, local, wfile>>
    /\ UNCHANGED <<prodVars, histVars>>

\* http_server.shutdown() returns once the serve_forever loop has ended, and
\* http_thread.join() then returns.
ServerShutdown ==
    /\ mainpc = "stopped"
    /\ serving' = FALSE
    /\ mainpc' = "done"
    /\ UNCHANGED <<recording, lock, waiters, pc, path, stalled, local, wfile>>
    /\ UNCHANGED <<prodVars, histVars>>

MainStep ==
    \/ StopRecording
    \/ ServerShutdown

---------------------------------------------------------------------------
\* The acceptor (serve_forever) and the clients.

\* The stream test ignores a query string.
RouteIgnoringQuery(p) ==
    IF p = "/" THEN "redirect"
    ELSE IF p \in {"/stream.mjpg", "/stream.mjpg?a=1"} THEN "stream"
    ELSE "static"

\* do_GET's if / elif / else on self.path
Route(p) ==
    IF p = "/" THEN "redirect"
    ELSE IF p = "/stream.mjpg" THEN "stream"
    ELSE "static"

\* serve_forever accepts a connection; finish_request builds the handler in a
\* new thread, which parses the request line and calls do_GET.  Connections
\* are numbered in the order they are accepted.
Accept(w) ==
    /\ serving
    /\ pc[w] = "unborn"
    /\ \A v \in Workers : v < w => pc[v] # "unborn"
    /\ \E p \in Paths : /\ path' = [path EXCEPT ![w] = p]
                        /\ pc' = [pc EXCEPT ![w] = Route(p)]
    /\ UNCHANGED <<lock, waiters, stalled, local, wfile>>
    /\ UNCHANGED <<prodVars, mainVars, histVars>>

HeaderStates == {"redirect", "static", "stream"}
WriteStates == {"boundary", "headers", "body", "trailer"}

\* The client stops reading while the worker is about to write: the write
\* does not return.
ClientStall(w) ==
    /\ pc[w] \in HeaderStates \cup WriteStates
    /\ ~stalled[w]
    /\ stalled' = [stalled EXCEPT ![w] = TRUE]
    /\ UNCHANGED <<lock, waiters, pc, path, local, wfile>>
    /\ UNCHANGED <<prodVars, mainVars, histVars>>

---------------------------------------------------------------------------
\* A worker: CustomHTTPRequestHandler.do_GET in its handler thread.

\* self.wfile.write(chunk), also the write end_headers does of the header
\* buffer; it returns when the client has taken the bytes.
Write(w, chunk) ==
    /\ ~stalled[w]
    /\ wfile' = [wfile EXCEPT ![w] = Append(@, chunk)]

Goto(w, label) == pc' = [pc EXCEPT ![w] = label]

\* path == '/': send_response(301), send_header('Location', ...), end_headers()
Redirect(w) ==
    /\ pc[w] = "redirect"
    /\ Write(w, RedirectResponse)
    /\ Goto(w, "done")
    /\ UNCHANGED <<lock, waiters, path, stalled, local>>
    /\ UNCHANGED <<prodVars, mainVars, histVars>>

\* else: super().do_GET()
StaticGET(w) ==
    /\ pc[w] = "static"
    /\ Write(w, StaticResponse(path[w]))
    /\ Goto(w, "done")
    /\ UNCHANGED <<lock, waiters, path, stalled, local>>
    /\ UNCHANGED <<prodVars, mainVars, histVars>>

\* path == '/stream.mjpg': send_response(200), four headers, end_headers()
StreamHeaders(w) ==
    /\ pc[w] = "stream"
    /\ Write(w, StreamResponse)
    /\ Goto(w, "loop")
    /\ UNCHANGED <<lock, waiters, path, stalled, local>>
    /\ UNCHANGED <<prodVars, mainVars, histVars>>

\* The client has gone and a write outside the try block raises: the
\* exception leaves do_GET and the handler thread ends (socketserver reports
\* it and closes the request).
HandlerError(w) ==
    /\ pc[w] \in HeaderStates
    /\ Goto(w, "done")
    /\ stalled' = [stalled EXCEPT ![w] = FALSE]
    /\ UNCHANGED <<lock, waiters, path, local, wfile>>
    /\ UNCHANGED <<prodVars, mainVars, histVars>>

\* while True: with self.output.condition:
WithCondition(w) ==
    /\ pc[w] = "loop"
    /\ lock = {}
    /\ lock' = {w}
    /\ Goto(w, "locked")
    /\ UNCHANGED <<waiters, path, stalled, local, wfile>>
    /\ UNCHANGED <<prodVars, mainVars, histVars>>

\* The generation of the last part the worker sent, 0 before the first (the
\* code keeps no such value; it is read off the history).
LastSeen(w) == IF sent[w] = <<>> THEN 0 ELSE sent[w][Len(sent[w])][1]

\* A wait on the predicate generation > lastSeen: no wait when a frame newer
\* than the last one sent is already there.
CondWaitNext(w) ==
    /\ pc[w] = "locked"
    /\ IF gen > LastSeen(w)
       THEN /\ Goto(w, "woken")
            /\ UNCHANGED <<lock, waiters>>
       ELSE /\ waiters' = waiters \cup {w}
            /\ lock' = {}
            /\ Goto(w, "waiting")
    /\ waitGen' = [waitGen EXCEPT ![w] = gen]
    /\ UNCHANGED <<path, stalled, local, wfile, rgen, sent>>
    /\ UNCHANGED <<prodVars, mainVars>>

\* A wait that returns at once, without a notify.
CondWaitNoBlock(w) ==
    /\ pc[w] = "locked"
    /\ Goto(w, "woken")
    /\ waitGen' = [waitGen EXCEPT ![w] = gen]
    /\ UNCHANGED <<lock, waiters, path, stalled, local, wfile, rgen, sent>>
    /\ UNCHANGED <<prodVars, mainVars>>

\* A wait that keeps the lock while it blocks (a sleep inside the with block).
CondWaitHoldLock(w) ==
    /\ pc[w] = "locked"
    /\ waiters' = waiters \cup {w}
    /\ Goto(w, "waiting")
    /\ waitGen' = [waitGen EXCEPT ![w] = gen]
    /\ UNCHANGED <<lock, path, stalled, local, wfile, rgen, sent>>
    /\ UNCHANGED <<prodVars, mainVars>>

\* self.output.condition.wait(), first half: the thread joins the waiter list
\* and releases the lock, whatever self.frame holds.
CondWait(w) ==
    /\ pc[w] = "locked"
    /\ waiters' = waiters \cup {w}
    /\ lock' = {}
    /\ Goto(w, "waiting")
    /\ waitGen' = [waitGen EXCEPT ![w] = gen]
    /\ UNCHANGED <<path, stalled, local, wfile, rgen, sent>>
    /\ UNCHANGED <<prodVars, mainVars>>

\* Blocked in wait(): in the waiter list until a notify takes the thread out.
Blocked(w) == pc[w] = "waiting" /\ w \in waiters

\* Notified and not yet back from wait().
Notified(w) == pc[w] = "waiting" /\ w \notin waiters

\* condition.wait(), second half: once notified, take the lock again and return
CondWake(w) ==
    /\ Notified(w)
    /\ lock = {}
    /\ lock' = {w}
    /\ Goto(w, "woken")
    /\ UNCHANGED <<waiters, path, stalled, local, wfile>>
    /\ UNCHANGED <<prodVars, mainVars, histVars>>

\* A frame copied earlier is kept (frame = frame or self.output.frame).
CopyFrameKeep(w) ==
    /\ local' = [local EXCEPT ![w] = IF local[w] = NoFrame THEN frame ELSE local[w]]
    /\ rgen' = [rgen EXCEPT ![w] = fgen]

\* frame = self.output.frame
CopyFrame(w) ==
    /\ local' = [local EXCEPT ![w] = frame]
    /\ rgen' = [rgen EXCEPT ![w] = fgen]

\* The with block does not end before the writes: the lock stays held.
ExitWithKeepLock(w) == UNCHANGED lock

\* Leaving the with block releases the lock.
ExitWith(w) == lock' = {}

\* frame = self.output.frame, the end of the with block, and `if frame:`
ReadFrame(w) ==
    /\ pc[w] = "woken"
    /\ CopyFrame(w)
    /\ ExitWith(w)
    /\ Goto(w, IF Truthy(frame) THEN "boundary" ELSE "loop")
    /\ UNCHANGED <<waiters, path, stalled, wfile, waitGen, sent>>
    /\ UNCHANGED <<prodVars, mainVars>>

\* self.wfile.write(b'--FRAME\r\n')
WriteBoundary(w) ==
    /\ pc[w] = "boundary"
    /\ Write(w, Boundary)
    /\ Goto(w, "headers")
    /\ UNCHANGED <<lock, waiters, path, stalled, local>>
    /\ UNCHANGED <<prodVars, mainVars, histVars>>

\* send_header('Content-Type', ...), send_header('Content-Length', ...),
\* end_headers()
WritePartHeaders(w) ==
    /\ pc[w] = "headers"
    /\ Write(w, PartHeaders(local[w]))
    /\ Goto(w, "body")
    /\ UNCHANGED <<lock, waiters, path, stalled, local>>
    /\ UNCHANGED <<prodVars, mainVars, histVars>>

\* self.wfile.write(frame)
WriteFrame(w) ==
    /\ pc[w] = "body"
    /\ Write(w, local[w])
    /\ sent' = [sent EXCEPT ![w] = Append(@, <<rgen[w], local[w]>>)]
    /\ Goto(w, "trailer")
    /\ UNCHANGED <<lock, waiters, path, stalled, local, rgen, waitGen>>
    /\ UNCHANGED <<prodVars, mainVars>>

\* The part is written again without a new wait (the loop around the writes
\* instead of around the wait).
WriteTrailerAgain(w) ==
    /\ pc[w] = "trailer"
    /\ Write(w, Trailer)
    /\ Goto(w, "boundary")
    /\ UNCHANGED <<lock, waiters, path, stalled, local>>
    /\ UNCHANGED <<prodVars, mainVars, histVars>>

\* The loop is left after the part (a return at the end of the body).
WriteTrailerReturn(w) ==
    /\ pc[w] = "trailer"
    /\ Write(w, Trailer)
    /\ Goto(w, "done")
    /\ UNCHANGED <<lock, waiters, path, stalled, local>>
    /\ UNCHANGED <<prodVars, mainVars, histVars>>

\* self.wfile.write(b'\r\n'), then back to the top of the loop
WriteTrailer(w) ==
    /\ pc[w] = "trailer"
    /\ Write(w, Trailer)
    /\ Goto(w, "loop")
    /\ UNCHANGED <<lock, waiters, path, stalled, local>>
    /\ UNCHANGED <<prodVars, mainVars, histVars>>

\* The exception of a failed write leaves the handler and stops the server.
WriteFailPropagates(w) ==
    /\ pc[w] \in WriteStates
    /\ Goto(w, "done")
    /\ serving' = FALSE
    /\ stalled' = [stalled EXCEPT ![w] = FALSE]
    /\ UNCHANGED <<recording, mainpc>>
    /\ UNCHANGED <<lock, waiters, path, local, wfile>>
    /\ UNCHANGED <<prodVars, histVars>>

\* The client has gone and a write in the loop raises (a write that did not
\* return raises as well): except Exception prints the message and do_GET
\* returns.
WriteFail(w) ==
    /\ pc[w] \in WriteStates
    /\ Goto(w, "done")
    /\ stalled' = [stalled EXCEPT ![w] = FALSE]
    /\ UNCHANGED <<lock, waiters, path, local, wfile>>
    /\ UNCHANGED <<prodVars, mainVars, histVars>>

WorkerStep(w) ==
    \/ Redirect(w)
    \/ StaticGET(w)
    \/ StreamHeaders(w)
    \/ HandlerError(w)
    \/ WithCondition(w)
    \/ CondWait(w)
    \/ CondWake(w)
    \/ ReadFrame(w)
    \/ WriteBoundary(w)
    \/ WritePartHeaders(w)
    \/ WriteFrame(w)
    \/ WriteTrailer(w)
    \/ WriteFail(w)

Next ==
    \/ ProducerStep
    \/ MainStep
    \/ \E w \in Workers : Accept(w) \/ WorkerStep(w) \/ ClientStall(w)

Spec == Init /\ [][Next]_vars

\* The steps a scheduled handler thread takes by itself (a failing write is
\* the client's doing).
WorkerRun(w) ==
    \/ Redirect(w)
    \/ StaticGET(w)
    \/ StreamHeaders(w)
    \/ WithCondition(w)
    \/ CondWait(w)
    \/ CondWake(w)
    \/ ReadFrame(w)
    \/ WriteBoundary(w)
    \/ WritePartHeaders(w)
    \/ WriteFrame(w)
    \/ WriteTrailer(w)

\* Every thread that can run is scheduled: a call of outputframe under way
\* completes and every handler thread takes its next step.  The encoder need
\* not produce a further frame, and no client need close or stall.
FairSpec ==
    /\ Spec
    /\ WF_vars(OutputframeAcquire)
    /\ WF_vars(OutputframeBody)
    /\ \A w \in Workers : WF_vars(WorkerRun(w))

---------------------------------------------------------------------------
Generations == 1..MaxGen

\* C1: no lost wakeups.  A worker is in condition.wait() since generation
\* waitGen; once a frame of a later generation k has been published, the
\* worker returns from the wait and reads a frame of generation k or later.
C1_NoLostWakeup ==
    \A w \in Workers : \A k \in Generations :
        (pc[w] = "waiting" /\ waitGen[w] < k /\ gen >= k) ~> (rgen[w] >= k)

\* Both workers were in the wait when a frame was published and each has read
\* a frame published after its wait began, the second worker the last frame.
C1_Witness ==
    \A w \in Workers :
        /\ path[w] = "/stream.mjpg"
        /\ rgen[w] > waitGen[w]
        /\ pc[w] \in WriteStates
        /\ rgen[2] = MaxGen

\* C2 as stated: a worker is blocked in the wait only while the generation is
\* not beyond the last one it sent.
C2_BlocksOnlyWhileNotNewer ==
    \A w \in Workers : Blocked(w) => gen <= LastSeen(w)

\* C2, amended: the wait blocks until the next publish after it began,
\* whatever frames were published before.  A worker leaves the waiter list
\* only in a step that publishes a frame, and a worker back from the wait
\* finds a generation later than the one at which its wait began.
C2_BlocksUntilNextPublish ==
    [][\A w \in Workers :
          /\ (Blocked(w) /\ ~Blocked(w)') => (gen' = gen + 1 /\ Notified(w)')
          /\ (pc[w] # "woken" /\ pc'[w] = "woken") =>
                 (Notified(w) /\ gen' > waitGen'[w])
      ]_vars

\* A worker began its wait when a frame newer than its last sent one was
\* already published, and has returned from the wait after a further publish.
C2_Witness ==
    \E w \in Workers :
        /\ pc[w] = "woken"
        /\ waitGen[w] > LastSeen(w)
        /\ gen > waitGen[w]

\* C3: coalescing.  The frame a worker reads when it returns from the wait is
\* the one of the latest publish, however many publishes happened while it
\* was in the wait; the part it then writes carries that frame; and
\* output.frame holds the frame of the latest publish and no other.
C3_Coalescing ==
    [][/\ \A w \in Workers :
            /\ (pc[w] = "woken" /\ pc'[w] # "woken") =>
                   (rgen'[w] = gen /\ local'[w] = frame)
            /\ sent'[w] # sent[w] =>
                   sent'[w] = Append(sent[w], <<rgen[w], local[w]>>)
       /\ gen' # gen => (frame' \in Frames /\ fgen' = gen')
      ]_vars

\* Two frames were published while the worker was in one wait, and the part
\* it is writing is the second.
C3_Witness ==
    \E w \in Workers :
        /\ pc[w] = "trailer"
        /\ rgen[w] >= waitGen[w] + 2
        /\ sent[w] = <<(<<rgen[w], local[w]>>)>>

\* C4: per-client ordering.  The generations of the parts written to one
\* client strictly increase.
C4_StrictlyIncreasing ==
    \A w \in Workers :
        \A i, j \in DOMAIN sent[w] : i < j => sent[w][i][1] < sent[w][j][1]

\* A client has been written two parts.
C4_Witness ==
    \E w \in Workers : Len(sent[w]) >= 2 /\ pc[w] = "loop"

\* The decimal numerals of 1..10.
Numeral == <<"1", "2", "3", "4", "5", "6", "7", "8", "9", "10">>

\* Positions between two parts: every part begun has been written in full.
BetweenParts == {"loop", "locked", "waiting", "woken", "boundary"}

\* C5: frame framing exactness.  The writes to a streaming client after the
\* response header come in groups of four, one group per frame b sent:
\* '--FRAME\r\n'; the two headers, Content-Length being the length of b in
\* decimal, and the blank line; the bytes b; '\r\n'.  Nothing else is written
\* and between two parts every group is complete.
C5_FramingExact ==
    \A w \in Workers :
        /\ \A i \in DOMAIN sent[w] :
              LET b == sent[w][i][2] IN
              /\ Len(b) \in DOMAIN Numeral
              /\ Len(wfile[w]) >= 4 * i
              /\ wfile[w][4 * i - 2] = "--FRAME\r\n"
              /\ wfile[w][4 * i - 1] =
                     "Content-Type: image/jpeg\r\n"
                     \o "Content-Length: " \o Numeral[Len(b)] \o "\r\n"
                     \o "\r\n"
              /\ wfile[w][4 * i] = b
              /\ Len(wfile[w]) > 4 * i => wfile[w][4 * i + 1] = "\r\n"
        /\ Len(wfile[w]) <= 4 * Len(sent[w]) + 3
        /\ pc[w] \in BetweenParts => Len(wfile[w]) = 4 * Len(sent[w]) + 1

\* A client has been written a complete part with the 10-byte frame, after a
\* part with the 2-byte frame.
C5_Witness ==
    \E w \in Workers :
        /\ pc[w] = "loop"
        /\ Len(sent[w]) = 2
        /\ sent[w][1][2] = "ab"
        /\ sent[w][2][2] = "0123456789"

\* What a worker other than w holds.
OthersUnchanged(w) ==
    \A v \in Workers \ {w} :
        /\ pc'[v] = pc[v]
        /\ wfile'[v] = wfile[v]
        /\ local'[v] = local[v]
        /\ sent'[v] = sent[v]
        /\ stalled'[v] = stalled[v]

\* C6: disconnect isolation.  A failing write in the loop ends that worker in
\* that step, with nothing more written; the broadcaster, the producer, the
\* main thread, the acceptor and the other workers are as before; the worker
\* does not hold the lock and is not in the waiter list; and a worker that
\* has ended stays ended.
C6_DisconnectIsolation ==
    [][\A w \in Workers :
          /\ (pc[w] \in WriteStates /\ pc'[w] = "done") =>
                /\ wfile'[w] = wfile[w]
                /\ <<frame, gen, fgen, ppc>>' = <<frame, gen, fgen, ppc>>
                /\ <<lock, waiters>>' = <<lock, waiters>>
                /\ lock # {w} /\ w \notin waiters
                /\ <<recording, mainpc, serving>>' = <<recording, mainpc, serving>>
                /\ OthersUnchanged(w)
          /\ pc[w] = "done" => pc'[w] = "done"
      ]_vars

\* One client's write failed in the middle of a part while the server was
\* serving, and the other client has since been written a newer frame.
C6_Witness ==
    \E w, v \in Workers :
        /\ pc[w] = "done"
        /\ Len(wfile[w]) \in {2, 3}
        /\ serving
        /\ pc[v] = "trailer"
        /\ LastSeen(v) > rgen[w]

\* C7: graceful shutdown.  Once the shutdown sequence of main has run and no
\* call of outputframe is under way (none can begin any more), no worker is
\* left in the condition's waiter list: nothing notifies the condition
\* afterwards, so a worker left there never returns.
C7_ShutdownReleasesWaiters ==
    (mainpc = "done" /\ ppc = "idle") => \A w \in Workers : ~Blocked(w)

\* C8: multi-client independence.  Whatever clients are stalled, a call of
\* outputframe under way completes, and a worker that is notified and whose
\* client neither stalls nor closes writes the part and comes back to the top
\* of the loop; the generations written to each client never decrease.
C8_Independence ==
    /\ (ppc # "idle") ~> (ppc = "idle")
    /\ \A w \in Workers :
          Notified(w) ~> (pc[w] = "loop" \/ pc[w] = "done" \/ stalled[w])
    /\ [](\A w \in Workers : \A i, j \in DOMAIN sent[w] :
              i <= j => sent[w][i][1] <= sent[w][j][1])

\* One client is stalled in the write of a frame body, and the other has
\* been written the whole part of a frame published later.
C8_Witness ==
    \E s, w \in Workers :
        /\ stalled[s] /\ pc[s] = "body"
        /\ pc[w] = "loop"
        /\ LastSeen(w) > rgen[s]
        /\ ppc = "idle"

StreamStates == {"stream"} \cup BetweenParts \cup WriteStates

\* C9: routing.  Path '/' is answered by the 301 response with the Location
\* header and nothing else; path '/stream.mjpg' by status 200 and the four
\* headers, followed by parts only; any other path by the static handler's
\* response, by a worker that never takes the lock, waits or reads the frame.
C9_Routing ==
    \A w \in Workers :
        /\ pc[w] # "unborn" /\ path[w] = "/" =>
              /\ pc[w] \in {"redirect", "done"}
              /\ wfile[w] \in
                    {<<>>,
                     <<"HTTP/1.0 301 Moved Permanently\r\nLocation: /index.html\r\n\r\n">>}
        /\ pc[w] # "unborn" /\ path[w] = "/stream.mjpg" =>
              /\ pc[w] \in StreamStates \cup {"done"}
              /\ pc[w] \in StreamStates \ {"stream"} => wfile[w] # <<>>
              /\ wfile[w] # <<>> =>
                    wfile[w][1] =
                        "HTTP/1.0 200 OK\r\n"
                        \o "Age: 0\r\n"
                        \o "Cache-Control: no-cache, private\r\n"
                        \o "Pragma: no-cache\r\n"
                        \o "Content-Type: multipart/x-mixed-replace; boundary=FRAME\r\n"
                        \o "\r\n"
        /\ pc[w] # "unborn" /\ path[w] \notin {"/", "/stream.mjpg"} =>
              /\ pc[w] \in {"static", "done"}
              /\ wfile[w] \in {<<>>, <<StaticResponse(path[w])>>}
        /\ path[w] # "/stream.mjpg" =>
              /\ lock # {w} /\ w \notin waiters
              /\ local[w] = NoFrame /\ sent[w] = <<>>

\* One request for '/' has been answered, and a request whose path is the
\* stream path with a query string has been answered by the static handler
\* while a frame was published.
C9_Witness ==
    \E w, v \in Workers :
        /\ path[w] = "/" /\ pc[w] = "done" /\ wfile[w] # <<>>
        /\ path[v] = "/stream.mjpg?a=1" /\ pc[v] = "done" /\ wfile[v] # <<>>
        /\ gen > 0

\* C10: lock discipline.  A worker holds the lock exactly between entering
\* the with block and the wait, and between its return from the wait and the
\* end of the with block, so never at a write; the producer holds it exactly
\* while it stores the frame and notifies.
C10_LockDiscipline ==
    /\ \A w \in Workers : lock = {w} <=> pc[w] \in {"locked", "woken"}
    /\ lock = {Producer} <=> ppc = "locked"
    /\ \A w \in Workers :
          pc[w] \in HeaderStates \cup WriteStates => lock # {w}

\* A worker is about to write a frame body while the producer holds the lock.
C10_Witness ==
    \E w \in Workers : pc[w] = "body" /\ lock = {Producer}

\* C11 as stated: the broadcaster keeps a counter that every publish
\* increments, so every publish changes the data the broadcaster keeps.
C11_PublishChangesBroadcaster ==
    [][gen' # gen => BroadcasterFields' # BroadcasterFields]_vars

\* C11, amended: the broadcaster keeps the latest frame and no counter.  With
\* the publishes numbered from 1, each call of outputframe stores its frame
\* exactly once, in the step that holds the lock, the stored frame is that of
\* the latest call, and a worker back from its wait copies, under the lock,
\* the frame of the latest call.
C11_BroadcasterState ==
    [][/\ gen' # gen =>
            /\ gen' = gen + 1
            /\ ppc = "locked" /\ lock = {Producer} /\ ppc' = "idle"
            /\ frame' \in Frames
       /\ frame' # frame => gen' = gen + 1
       /\ fgen' = gen' /\ (gen' = 0 <=> frame' = NoFrame)
       /\ \A w \in Workers :
              (pc[w] = "woken" /\ pc'[w] # "woken") =>
                  /\ lock = {w}
                  /\ local'[w] = frame /\ rgen'[w] = fgen /\ fgen = gen
      ]_vars

\* The same frame was published twice, and a worker back from its wait has
\* copied the frame of the second publish.
C11_Witness ==
    \E w \in Workers :
        /\ pc[w] = "boundary"
        /\ gen = 2 /\ rgen[w] = 2 /\ waitGen[w] = 1
        /\ local[w] = frame
        /\ \E i \in DOMAIN sent[w] : sent[w][i] = <<1, frame>>

\* Positions inside the while loop of the stream branch.
LoopStates == BetweenParts \cup WriteStates

\* C12: streaming state machine.  A worker in the loop stays in the loop or
\* ends; it ends only at a write, by the failure of that write (nothing is
\* written in that step); every write in the loop can fail and so end the
\* worker; and a worker that has ended never takes the lock, waits or writes.
C12_StreamingStateMachine ==
    /\ [](\A w \in Workers : pc[w] \in WriteStates => ENABLED WriteFail(w))
    /\ [][\A w \in Workers :
             /\ pc[w] \in LoopStates => pc'[w] \in LoopStates \cup {"done"}
             /\ (pc[w] \in LoopStates /\ pc'[w] = "done") =>
                    (pc[w] \in WriteStates /\ wfile'[w] = wfile[w])
             /\ pc[w] = "done" =>
                    /\ pc'[w] = "done" /\ wfile'[w] = wfile[w]
                    /\ sent'[w] = sent[w]
                    /\ w \notin waiters' /\ lock' # {w}
         ]_vars

\* A streaming worker has ended by the failure of the first write of its
\* second part, after the shutdown of the server.
C12_Witness ==
    \E w \in Workers :
        /\ pc[w] = "done"
        /\ Len(sent[w]) = 1 /\ Len(wfile[w]) = 5
        /\ rgen[w] = 2
        /\ mainpc = "done"

\* C13: suspension points.  The producer with the lock can always complete
\* the publish; a worker with the lock can always take its next step, which
\* gives the lock up; so the lock is either free or held by a thread that can
\* run, and a worker that does not hold it is suspended on the broadcaster
\* only in its wait.  The acceptor can accept whatever the lock's state.
C13_SuspensionPoints ==
    /\ ppc = "locked" => ENABLED OutputframeBody
    /\ lock = {Producer} => ppc = "locked"
    /\ \A w \in Workers :
          /\ lock = {w} => ENABLED (CondWait(w) \/ ReadFrame(w))
          /\ (w \in waiters) => (pc[w] = "waiting" /\ lock # {w})
          /\ (lock = {} /\ (pc[w] = "loop" \/ Notified(w))) =>
                 ENABLED (WithCondition(w) \/ CondWake(w))
    /\ (lock = {} /\ ppc = "acquire") => ENABLED OutputframeAcquire
    /\ (serving /\ \E w \in Workers : pc[w] = "unborn") =>
           ENABLED (\E w \in Workers : Accept(w))

\* The producer holds the lock to publish while one worker is in the wait and
\* the other, back at the top of the loop after a part, wants the lock.
C13_Witness ==
    /\ ppc = "locked"
    /\ \E w, v \in Workers : Blocked(w) /\ pc[v] = "loop" /\ Len(sent[v]) = 1

\* The generation of the part before the one the worker is writing (0 when
\* there is none): at the trailer the part being written is the last of sent.
PreviousPart(w) ==
    IF pc[w] = "trailer"
    THEN (IF Len(sent[w]) >= 2 THEN sent[w][Len(sent[w]) - 1][1] ELSE 0)
    ELSE LastSeen(w)

\* C14: on a stream connection the 200 response header is the first write
\* and is written once only; and a worker at any write of a part has been
\* woken from a wait (the frame it writes was published after the wait
\* began) that it entered after the previous part (whose frame was published
\* before the wait began): one wait per part.
C14_HeaderOnceOneWaitPerPart ==
    \A w \in Workers :
        path[w] = "/stream.mjpg" =>
            /\ pc[w] \in LoopStates => (wfile[w] # <<>> /\ wfile[w][1] = StreamResponse)
            /\ \A i \in DOMAIN wfile[w] : i > 1 => wfile[w][i] # StreamResponse
            /\ pc[w] = "stream" => (wfile[w] = <<>> /\ sent[w] = <<>>)
            /\ pc[w] \in WriteStates =>
                   (PreviousPart(w) <= waitGen[w] /\ waitGen[w] < rgen[w])

\* A worker is writing the body of its second part, which it read after a
\* second wait.
C14_Witness ==
    \E w \in Workers :
        /\ pc[w] = "body"
        /\ sent[w] # <<>> /\ LastSeen(w) = 1
        /\ waitGen[w] = 1 /\ rgen[w] = 2

\* C15: every part carries a present, non-empty frame, the one the worker
\* copied from output.frame under the lock; a worker that finds the frame
\* absent or empty writes nothing and goes back to the top of the loop, where
\* it waits again.
C15_OnlyNonEmptyFrames ==
    [][\A w \in Workers :
          /\ (pc[w] = "woken" /\ pc'[w] # "woken") =>
                /\ wfile'[w] = wfile[w]
                /\ IF frame # NoFrame /\ frame # ""
                   THEN pc'[w] = "boundary" /\ local'[w] = frame
                   ELSE pc'[w] = "loop"
          /\ pc'[w] \in WriteStates =>
                (local'[w] \in Frames \ {""} /\ lock' # {w})
          /\ wfile'[w] # wfile[w] =>
                (pc[w] \in WriteStates => local[w] \in Frames \ {""})
          /\ sent'[w] # sent[w] =>
                sent'[w][Len(sent'[w])][2] \in Frames \ {""}
      ]_vars

\* A worker was woken for an empty frame, wrote nothing for it and is in the
\* wait again, while the other was woken for a later frame and writes it.
C15_Witness ==
    \E w, v \in Workers :
        /\ Blocked(w)
        /\ local[w] = "" /\ rgen[w] = 1 /\ Len(wfile[w]) = 1
        /\ pc[v] = "headers" /\ rgen[v] = 2 /\ Len(wfile[v]) = 2

\* C16: every frame a client is sent was published after its worker entered
\* the wait before that part: the frame a worker copies on its return from
\* the wait was stored after the wait began, the part it writes carries that
\* frame, and a worker in the wait stays there as long as nothing is
\* published, whatever frame was current when it connected.
C16_OnlyFramesAfterWait ==
    [][\A w \in Workers :
          /\ (pc[w] = "locked" /\ pc'[w] # "locked") =>
                (Blocked(w)' /\ waitGen'[w] = gen /\ rgen'[w] <= gen)
          /\ (Blocked(w) /\ gen' = gen) => (Blocked(w)' /\ wfile'[w] = wfile[w])
          /\ (pc[w] = "woken" /\ pc'[w] # "woken") => fgen > waitGen[w]
          /\ sent'[w] # sent[w] =>
                (Len(sent'[w]) = Len(sent[w]) + 1
                 /\ sent'[w][Len(sent'[w])][1] > waitGen[w])
      ]_vars

\* A client began its first wait after the first frame, a non-empty one that
\* the other client was sent, had been published; its first part is the
\* frame of the second publish.
C16_Witness ==
    \E w, v \in Workers :
        /\ pc[w] = "trailer"
        /\ Len(wfile[w]) = 4 /\ Len(sent[w]) = 1
        /\ waitGen[w] = 1 /\ sent[w][1][1] = 2
        /\ sent[v] # <<>> /\ sent[v][1][1] = 1

===========================================================================
